---------------------------- MODULE Spec2Model ----------------------------
(***************************************************************************)
(* Sanctions screening of trishbailey/BI-Risk: the name normalizers and    *)
(* similarity scorers of the OFAC, EU and OpenSanctions clients, the       *)
(* TTL caches of the OFAC and EU clients, and the step-2 workflow of       *)
(* app.py that calls them.                                                 *)
(*                                                                         *)
(* A name is a sequence of one-character strings.  A score is a fraction   *)
(* <<n, d>> (Python computes it as a float; every comparison the code      *)
(* makes is reproduced exactly on the fraction).                           *)
(***************************************************************************)
EXTENDS Integers, Sequences, FiniteSets, TLC

VARIABLES
    \* ---- one call of a normalizer / scorer (pure functions) ----
    client,      \* which client's function is applied: "OFAC", "EU", "OS"
    argA,        \* first argument (raw name)
    argB,        \* second argument of the scorer
    once,        \* _clean_company_name(argA)
    twice,       \* _clean_company_name(_clean_company_name(argA))
    score,       \* _calculate_match_score(argA, argB)
    sufOrder,    \* iteration order of OFAC's suffix set in this process
    \* ---- one call of the EU parser on a sanctionEntity node ----
    node,        \* the nameAlias entries of the node, in document order
    subject,     \* _parse_subject(node)
    \* ---- one long-lived client instance and its callers ----
    now,         \* datetime.utcnow(), in hours
    cache,       \* the instance's _cache: NoCache or [ts, ents]
    inflight,    \* the search_company call in progress and the responses it has got
    last,        \* the search_company call that has just returned
    \* ---- the Streamlit script app.py ----
    session,     \* st.session_state
    db,          \* the tables SupabaseManager writes
    calls,       \* the search_company calls the script has made (latest two)
    run,         \* the latest run of the script: its event and how it ended
    \* ---- threads sharing one client instance ----
    threads      \* each thread's position in search_company and its locals

pureVars == <<client, argA, argB, once, twice, score, node, subject>>
clientVars == <<now, cache, inflight, last>>
appVars == <<session, db, calls, run>>
concVars == <<threads>>

vars ==
    <<client, argA, argB, once, twice, score, sufOrder, node, subject, now, cache,
      inflight, last, session, db, calls, run, threads>>

-----------------------------------------------------------------------------
(* Bounds *)

\* longest raw name given to a normalizer
MaxNameLen == 5
\* longest raw name given to a scorer (two names are drawn)
MaxScoreLen == 3
MaxAliases == 3

\* characters of raw names: lower and upper case letters, blank, punctuation
Chars == {"a", "A", "C", "S", " ", "."}
\* characters of the names given to the scorers
ScoreChars == {"A", "C", "S", " "}

RECURSIVE StringsUpTo(_, _)
StringsUpTo(alphabet, n) ==
    IF n = 0 THEN { <<>> }
    ELSE LET shorter == StringsUpTo(alphabet, n - 1)
         IN  shorter \cup { Append(s, c) : s \in { t \in shorter : Len(t) = n - 1 },
                                           c \in alphabet }

NormInputs == StringsUpTo(Chars, MaxNameLen)
ScoreInputs == StringsUpTo(ScoreChars, MaxScoreLen)

\* "not computed yet"
NoStr == <<"<unset>">>
NoScore == <<0, 0>>

-----------------------------------------------------------------------------
(* Python string primitives used by the normalizers *)

\* str.upper() on one character
UpperChar(c) ==
    CASE c = "a" -> "A"
      [] c = "c" -> "C"
      [] c = "s" -> "S"
      [] OTHER -> c

\* str.lower() on one character
LowerChar(c) ==
    CASE c = "A" -> "a"
      [] c = "C" -> "c"
      [] c = "S" -> "s"
      [] OTHER -> c

Upper(s) == [i \in 1..Len(s) |-> UpperChar(s[i])]
Lower(s) == [i \in 1..Len(s) |-> LowerChar(s[i])]

\* regex class \s
IsSpaceChar(c) == c = " "
\* regex class \w
IsWordChar(c) == c \in {"a", "c", "s", "A", "C", "S"}

RECURSIVE LStrip(_)
LStrip(s) == IF s # <<>> /\ IsSpaceChar(Head(s)) THEN LStrip(Tail(s)) ELSE s

RECURSIVE RStrip(_)
RStrip(s) ==
    IF s # <<>> /\ IsSpaceChar(s[Len(s)]) THEN RStrip(SubSeq(s, 1, Len(s) - 1)) ELSE s

\* str.strip()
Strip(s) == RStrip(LStrip(s))

\* re.sub(r"[^\w\s]", " ", s)
ReplacePunct(s) ==
    [i \in 1..Len(s) |-> IF IsWordChar(s[i]) \/ IsSpaceChar(s[i]) THEN s[i] ELSE " "]

\* re.sub(r"\s+", " ", s): every run of blanks becomes one blank
RECURSIVE CollapseWs(_)
CollapseWs(s) ==
    IF s = <<>> THEN <<>>
    ELSE IF IsSpaceChar(Head(s))
         THEN <<" ">> \o CollapseWs(LStrip(s))
         ELSE <<Head(s)>> \o CollapseWs(Tail(s))

\* str.endswith(suf)
EndsWith(s, suf) ==
    Len(s) >= Len(suf) /\ SubSeq(s, Len(s) - Len(suf) + 1, Len(s)) = suf

\* the first word of a string that starts with a non-blank
RECURSIVE FirstWord(_)
FirstWord(s) ==
    IF s = <<>> \/ IsSpaceChar(Head(s)) THEN <<>>
    ELSE <<Head(s)>> \o FirstWord(Tail(s))

\* str.split(): the whitespace-delimited words, in order, none empty
RECURSIVE Split(_)
Split(s) ==
    LET t == LStrip(s)
    IN  IF t = <<>> THEN <<>>
        ELSE LET w == FirstWord(t)
             IN  <<w>> \o Split(SubSeq(t, Len(w) + 1, Len(t)))

\* " ".join(words)
RECURSIVE Join(_)
Join(words) ==
    IF words = <<>> THEN <<>>
    ELSE IF Len(words) = 1 THEN words[1]
    ELSE words[1] \o <<" ">> \o Join(Tail(words))

\* x in y (substring test)
IsSubstring(x, y) ==
    \E i \in 0..(Len(y) - Len(x)) : SubSeq(y, i + 1, i + Len(x)) = x

\* set(s.split())
WordSet(s) == { Split(s)[i] : i \in 1..Len(Split(s)) }

-----------------------------------------------------------------------------
(* Legal-suffix sets *)

OfacSuffixes ==
    { <<" ","I","N","C">>, <<" ","L","L","C">>, <<" ","L","T","D">>,
      <<" ","L","I","M","I","T","E","D">>, <<" ","C","O","R","P">>,
      <<" ","C","O","R","P","O","R","A","T","I","O","N">>,
      <<" ","C","O","M","P","A","N","Y">>, <<" ","C","O">>, <<" ","P","L","C">>,
      <<" ","S","A">>, <<" ","A","G">>, <<" ","G","M","B","H">>, <<" ","B","V">>,
      <<" ","O","O","O">>, <<" ","O","A","O">>, <<" ","P","A","O">>, <<" ","Z","A","O">>,
      <<" ","J","S","C">>, <<" ","P","J","S","C">>, <<" ","O","J","S","C">> }

EuSuffixes ==
    { <<"i","n","c">>, <<"l","l","c">>, <<"l","t","d">>, <<"l","i","m","i","t","e","d">>,
      <<"c","o","r","p">>, <<"c","o","r","p","o","r","a","t","i","o","n">>,
      <<"c","o","m","p","a","n","y">>, <<"c","o">>, <<"p","l","c">>, <<"s","a">>,
      <<"a","g">>, <<"g","m","b","h">>, <<"b","v">>, <<"n","v">>, <<"s","p","a">>,
      <<"s","r","l">>, <<"s","a","r","l">>, <<"a","b">>, <<"a","s">>, <<"o","y">>,
      <<"s","e">>, <<"p","t","e">>, <<"p","t">>, <<"k","f","t">>, <<"o","y","j">>,
      <<"a","p","s">>, <<"k","k">>, <<"k","a","b","u","s","h","i","k","i">>,
      <<"k","a","i","s","h","a">> }

OsSuffixes ==
    { <<"i","n","c">>, <<"l","l","c">>, <<"l","t","d">>, <<"l","i","m","i","t","e","d">>,
      <<"c","o","r","p">>, <<"c","o","r","p","o","r","a","t","i","o","n">>,
      <<"c","o","m","p","a","n","y">>, <<"c","o">>, <<"p","l","c">>, <<"s","a">>,
      <<"a","g">>, <<"g","m","b","h">>, <<"b","v">>, <<"n","v">>, <<"s","p","a">>,
      <<"s","r","l">>, <<"s","a","r","l">>, <<"a","b">>, <<"a","s">>, <<"o","y">> }

\* The OFAC suffixes that a name over the model's alphabet can end with: the
\* others never match, so their place in the iteration order has no effect.
OfacLiveSuffixes ==
    { suf \in OfacSuffixes :
        \A i \in 1..Len(suf) : suf[i] \in { UpperChar(c) : c \in Chars } \cup {" "} }

\* sorted(suffixes, key=len, reverse=True): longest first; suffixes of equal
\* length keep the iteration order of the set, which Python's string hashing
\* makes differ from one process to the next.
OfacSortedOrders ==
    { o \in [1..Cardinality(OfacLiveSuffixes) -> OfacLiveSuffixes] :
        /\ \A i, j \in DOMAIN o : i # j => o[i] # o[j]
        /\ \A i, j \in DOMAIN o : i < j => Len(o[i]) >= Len(o[j]) }


-----------------------------------------------------------------------------
(* Name normalizers *)

\* OFAC: one pass over the suffixes in sorted order; a suffix that matches is
\* cut and the rest stripped, then the pass goes on to the next suffix.
RECURSIVE OfacSuffixPass(_, _, _)
OfacSuffixPass(s, order, i) ==
    IF i > Len(order) THEN s
    ELSE OfacSuffixPass(
             IF EndsWith(s, order[i])
             THEN Strip(SubSeq(s, 1, Len(s) - Len(order[i])))
             ELSE s,
             order, i + 1)

Ofac_clean_company_name(name) ==
    CollapseWs(OfacSuffixPass(ReplacePunct(Strip(Upper(name))), sufOrder, 1))

\* while words and words[-1] in suffixes: words.pop()
RECURSIVE PopSuffixes(_, _)
PopSuffixes(words, suffixes) ==
    IF words # <<>> /\ words[Len(words)] \in suffixes
    THEN PopSuffixes(SubSeq(words, 1, Len(words) - 1), suffixes)
    ELSE words

Eu_clean_company_name(name) ==
    Join(PopSuffixes(Split(ReplacePunct(Strip(Lower(name)))), EuSuffixes))

Os_clean_company_name(name) ==
    Join(PopSuffixes(Split(ReplacePunct(Strip(Lower(name)))), OsSuffixes))

-----------------------------------------------------------------------------
(* Similarity scorers *)

\* len(sw & fw) / len(sw | fw)
Jaccard(sw, fw) == <<Cardinality(sw \cap fw), Cardinality(sw \cup fw)>>

\* The rules with word overlap ranked above containment; C9 must tell it
\* from TierScore.
TierScoreOverlapFirst(s, f) ==
    IF s = <<>> \/ f = <<>> THEN <<0, 1>>
    ELSE IF s = f THEN <<1, 1>>
    ELSE IF WordSet(s) \cap WordSet(f) # {}
         THEN <<Cardinality(WordSet(s) \cap WordSet(f)),
                Cardinality(WordSet(s) \cup WordSet(f))>>
    ELSE IF IsSubstring(s, f) \/ IsSubstring(f, s) THEN <<9, 10>>
    ELSE <<0, 1>>

\* The rules with containment tested before equality, so that a name scored
\* against itself falls in the containment tier; C11 must tell it from
\* TierScore.
TierScoreContainFirst(s, f) ==
    IF s = <<>> \/ f = <<>> THEN <<0, 1>>
    ELSE IF IsSubstring(s, f) \/ IsSubstring(f, s) THEN <<9, 10>>
    ELSE IF s = f THEN <<1, 1>>
    ELSE IF WordSet(s) = {} \/ WordSet(f) = {} THEN <<0, 1>>
    ELSE Jaccard(WordSet(s), WordSet(f))

\* The rules with containment tested in one direction only (the searched
\* name inside the found name); C12 must tell it from TierScore.
TierScoreOneWay(s, f) ==
    IF s = <<>> \/ f = <<>> THEN <<0, 1>>
    ELSE IF s = f THEN <<1, 1>>
    ELSE IF IsSubstring(s, f) THEN <<9, 10>>
    ELSE IF WordSet(s) = {} \/ WordSet(f) = {} THEN <<0, 1>>
    ELSE Jaccard(WordSet(s), WordSet(f))

\* The rules with a smoothed overlap (|A n B| + 1) / (|A u B| + 1) in the last
\* tier, which is positive for disjoint word sets; C13 must tell it from
\* TierScore.
TierScoreSmoothed(s, f) ==
    IF s = <<>> \/ f = <<>> THEN <<0, 1>>
    ELSE IF s = f THEN <<1, 1>>
    ELSE IF IsSubstring(s, f) \/ IsSubstring(f, s) THEN <<9, 10>>
    ELSE <<Cardinality(WordSet(s) \cap WordSet(f)) + 1,
           Cardinality(WordSet(s) \cup WordSet(f)) + 1>>

\* The four rules on two normalized names s and f, first match wins.
TierScore(s, f) ==
    IF s = <<>> \/ f = <<>> THEN <<0, 1>>
    ELSE IF s = f THEN <<1, 1>>
    ELSE IF IsSubstring(s, f) \/ IsSubstring(f, s) THEN <<9, 10>>
    ELSE IF WordSet(s) = {} \/ WordSet(f) = {} THEN <<0, 1>>
    ELSE Jaccard(WordSet(s), WordSet(f))

Ofac_calculate_match_score(search_name, found_name) ==
    TierScore(Ofac_clean_company_name(search_name), Ofac_clean_company_name(found_name))

Eu_calculate_match_score(search_name, found_name) ==
    TierScore(Eu_clean_company_name(search_name), Eu_clean_company_name(found_name))

\* comparisons of scores (fractions with positive denominators)
ScoreEq(x, y) == x[1] * y[2] = y[1] * x[2]
ScoreGeq(x, y) == x[1] * y[2] >= y[1] * x[2]
ScoreGt(x, y) == x[1] * y[2] > y[1] * x[2]

-----------------------------------------------------------------------------
(* Sanctions-list data and network responses *)

\* self._cache_ttl = timedelta(hours=6)
CacheTtl == 6

\* latest hour of the clock
MaxTime == 7

\* self._cache = None
NoCache == [ts |-> -1, ents |-> <<>>, none |-> TRUE]
CacheOf(t, ents) == [ts |-> t, ents |-> ents, none |-> FALSE]

\* company_name = None (not a string), threshold = None (not a number)
NoneName == <<"<None>">>
NoneThr == <<0, -1>>
\* threshold: float = 0.7
DefaultThreshold == <<7, 10>>

\* A row of a sanctions list: its name, its type (what the record describes:
\* Entity, Vessel or Individual; OFAC's sdnType column, the EU XML node kind),
\* the EU CSV's subject-type column (subj, which may be empty) and the list's
\* own reference number (id); aliases are the record's alternate names (the
\* akaList of an sdnEntry, the nameAlias nodes that are not strong).
Row(name, type, subj, id) ==
    [name |-> name, type |-> type, subj |-> subj, id |-> id, aliases |-> <<>>]
Aka(row, aliases) == [row EXCEPT !.aliases = aliases]

RowsV1 ==
    << Aka(Row(<<"A">>, "Entity", "enterprise", 1), << <<"S", "S">> >>),
       Row(<<"S">>, "Individual", "person", 2),
       Row(<<"C", " ", "A">>, "Vessel", "enterprise", 3),
       Row(<<"C", " ", "S">>, "Entity", "enterprise", 6) >>

RowsV2 ==
    << Row(<<"A", " ", "C", " ", "S", "A">>, "Entity", "enterprise", 1),
       Row(<<>>, "Entity", "enterprise", 4),
       Row(<<"S">>, "Individual", "", 5),
       Row(<<"A">>, "Entity", "enterprise", 1) >>

RowLists == {RowsV1, RowsV2, <<>>}

\* A result of the OpenSanctions search API: the provider's score (0..100, or
\* NoneScore for a null), the entity's id and name.
NoneScore == -1
OsResult(sc, id, name) == [score |-> sc, id |-> id, name |-> name]

OsResultsV1 ==
    << OsResult(95, 1, <<"A">>), OsResult(70, 2, <<"A", " ", "C">>),
       OsResult(69, 3, <<"C">>) >>

OsResultsV2 == << OsResult(40, 4, <<"S">>) >>

OsResultsV3 == << OsResult(NoneScore, 5, <<"A">>) >>

OsResultLists == {OsResultsV1, OsResultsV2, OsResultsV3, <<>>}

\* the names searched for
Queries == { <<"a">>, <<"A", ".", "C">>, <<"S", "S">>, NoneName }
Thresholds == { DefaultThreshold, NoneThr }

\* What one GET gives: a requests exception (neterr), another exception
\* (raise), an authentication rejection (auth: 401/403), another status that is
\* not 200, a 200 with an empty or an unparsable body, or a 200 carrying rows.
\* Pending stands for a request that has not been answered yet.
Resp(kind, rows) == [kind |-> kind, rows |-> rows]
Pending == Resp("pending", <<>>)
FailureKinds == {"neterr", "raise", "auth", "non200", "empty", "unparsable"}
Responses ==
    { Resp(k, <<>>) : k \in FailureKinds } \cup { Resp("ok", r) : r \in RowLists }
OsResponses ==
    { Resp(k, <<>>) : k \in FailureKinds \ {"empty", "unparsable"} }
        \cup { Resp("ok", r) : r \in OsResultLists }

OfacUrls == <<"csv", "xml", "adv_xml">>
EuUrls == <<"xml", "xml_token", "csv", "csv_token">>
OsUrls == <<"search">>
AllUrls == {"csv", "xml", "adv_xml", "xml_token", "csv_token", "search"}
NoResponses == [u \in AllUrls |-> Pending]

\* round(score, 2), in hundredths (ties to even, as Python rounds a float that
\* is exactly halfway)
Round2(x) ==
    LET q == (100 * x[1]) \div x[2]
        r == (100 * x[1]) % x[2]
    IN  IF 2 * r < x[2] THEN q
        ELSE IF 2 * r > x[2] THEN q + 1
        ELSE IF q % 2 = 0 THEN q ELSE q + 1

-----------------------------------------------------------------------------
(* What search_company and the loaders give back *)

\* A cache test that still serves an entry whose age equals the TTL; C7 must
\* tell it from CacheFresh.
CacheFreshInclusive(c, t) == ~c.none /\ (t - c.ts) <= CacheTtl

\* if self._cache and (datetime.utcnow() - self._cache[0]) < self._cache_ttl
CacheFresh(c, t) == ~c.none /\ (t - c.ts) < CacheTtl

\* A loader that treats an empty universe as a failure; C5 must tell it from
\* Loaded.
LoadedOrRaise(ents, c, urls) ==
    [entities |-> ents, cache |-> c, urls |-> urls, raised |-> ents = <<>>,
     exc |-> IF ents = <<>> THEN "no entities loaded" ELSE "", wait |-> FALSE]

\* A load: the entities returned, the cache afterwards, the URLs requested in
\* order, "raised" when an exception left the function (exc: its message), and
\* "wait" when the function is blocked in the GET of the last URL of urls.
Loaded(ents, c, urls) ==
    [entities |-> ents, cache |-> c, urls |-> urls, raised |-> FALSE, exc |-> "",
     wait |-> FALSE]

\* A fallback that keeps serving the previous list when nothing could be
\* loaded; C19 must tell it from LoadNothing.
LoadStale(c, t, urls) ==
    IF c.none THEN Loaded(<<>>, CacheOf(t, <<>>), urls) ELSE Loaded(c.ents, c, urls)

\* No data available: self._cache = (datetime.utcnow(), []); return []
\* (c is the cache entry this overwrites)
LoadNothing(c, t, urls) == Loaded(<<>>, CacheOf(t, <<>>), urls)

LoadRaised(c, urls, message) ==
    [entities |-> <<>>, cache |-> c, urls |-> urls, raised |-> TRUE, exc |-> message,
     wait |-> FALSE]
LoadWaiting(c, urls) ==
    [entities |-> <<>>, cache |-> c, urls |-> urls, raised |-> FALSE, exc |-> "",
     wait |-> TRUE]

\* an entity record built by a parser; type is the label the parser gives it,
\* truth what the list row describes
Entity(r, type) ==
    [name |-> r.name, type |-> type, id |-> r.id, truth |-> r.type,
     aliases |-> r.aliases]

\* an entity record built from a CSV row: "aliases": []
CsvEntity(r, type) == [Entity(r, type) EXCEPT !.aliases = <<>>]

\* one entry of matches
Match(e, sc, source) ==
    [name |-> e.name, match_score |-> Round2(sc), id |-> e.id, type |-> e.type,
     truth |-> e.truth, aliases |-> e.aliases, source |-> source]

\* An envelope whose status is taken from a second match instead of the first;
\* C1 must tell it from FoundEnvelope.
FoundEnvelopeSecond(company_name, matches) ==
    [searched_name |-> company_name,
     status |-> IF Len(matches) > 1 THEN "found_matches" ELSE "clear",
     matches |-> matches,
     match_count |-> Len(matches),
     error |-> "<absent>"]

\* the envelope of the return statement in the try block
FoundEnvelope(company_name, matches) ==
    [searched_name |-> company_name,
     status |-> IF matches # <<>> THEN "found_matches" ELSE "clear",
     matches |-> matches,
     match_count |-> Len(matches),
     error |-> "<absent>"]

\* the envelope of the except Exception block
ErrorEnvelope(company_name, message) ==
    [searched_name |-> company_name, status |-> "error", matches |-> <<>>,
     match_count |-> 0, error |-> message]

NoEnvelope ==
    [searched_name |-> <<>>, status |-> "<none>", matches |-> <<>>,
     match_count |-> 0, error |-> "<absent>"]

\* What a call of search_company leaves behind: the envelope returned (or
\* escaped = TRUE when an exception reached the caller instead), the cache
\* afterwards, the URLs requested, the entity list that was scored, and
\* wait = TRUE while the call is blocked in a GET.
Outcome(env, c, urls, scored) ==
    [env |-> env, escaped |-> FALSE, exc |-> "", cache |-> c, urls |-> urls,
     scored |-> scored, wait |-> FALSE]
Escaped(message, c, urls) ==
    [env |-> NoEnvelope, escaped |-> TRUE, exc |-> message, cache |-> c, urls |-> urls,
     scored |-> <<>>, wait |-> FALSE]
Blocked(c, urls) ==
    [env |-> NoEnvelope, escaped |-> FALSE, exc |-> "", cache |-> c, urls |-> urls,
     scored |-> <<>>, wait |-> TRUE]

\* A handler that raises the exception again; C4 must tell it from
\* SearchExcept.
SearchReraise(company_name, message, c, urls) ==
    [env |-> NoEnvelope, escaped |-> TRUE, exc |-> message, cache |-> c, urls |-> urls,
     scored |-> <<>>, wait |-> FALSE]

\* except Exception as e: return {... "status": "error", "error": str(e) ...}
SearchExcept(company_name, message, c, urls) ==
    [env |-> ErrorEnvelope(company_name, message), escaped |-> FALSE, exc |-> message,
     cache |-> c, urls |-> urls, scored |-> <<>>, wait |-> FALSE]

MsgNoneName == "'NoneType' object has no attribute 'upper'"
MsgNoneNameLower == "'NoneType' object has no attribute 'lower'"
MsgNoneThr == "'>=' not supported between instances of 'float' and 'NoneType'"
MsgNoneScore == "unsupported operand type(s) for /: 'NoneType' and 'int'"
MsgOther == "unexpected error in session.get"

-----------------------------------------------------------------------------
(* OFACClient *)

\* CSV rows kept: sdnType in {"Entity", "Vessel"} and a non-empty sdnName
RECURSIVE OfacCsvEntities(_)
OfacCsvEntities(rows) ==
    IF rows = <<>> THEN <<>>
    ELSE IF Head(rows).type \notin {"Entity", "Vessel"} THEN OfacCsvEntities(Tail(rows))
    ELSE IF Head(rows).name = <<>> THEN OfacCsvEntities(Tail(rows))
    ELSE <<CsvEntity(Head(rows), Head(rows).type)>> \o OfacCsvEntities(Tail(rows))

\* A parser that keeps every named sdnEntry node whatever its type; C14 must
\* tell it from Ofac_parse_sdn_xml.
RECURSIVE OfacXmlAnyType(_)
OfacXmlAnyType(rows) ==
    IF rows = <<>> THEN <<>>
    ELSE IF Head(rows).name = <<>> THEN OfacXmlAnyType(Tail(rows))
    ELSE <<Entity(Head(rows), Head(rows).type)>> \o OfacXmlAnyType(Tail(rows))

\* _parse_sdn_xml: sdnEntry nodes with a name (_parse_sdn_entry) and type
\* Entity or Vessel
RECURSIVE Ofac_parse_sdn_xml(_)
Ofac_parse_sdn_xml(rows) ==
    IF rows = <<>> THEN <<>>
    ELSE IF Head(rows).name = <<>> THEN Ofac_parse_sdn_xml(Tail(rows))
    ELSE IF Head(rows).type \in {"Entity", "Vessel"}
         THEN <<Entity(Head(rows), Head(rows).type)>> \o Ofac_parse_sdn_xml(Tail(rows))
         ELSE Ofac_parse_sdn_xml(Tail(rows))

\* A CSV attempt whose entities are thrown away, so that the XML export is
\* requested even after a usable CSV; C21 must tell it from OfacTryCsv.
OfacTryCsvDropped(resp) == <<>>

\* The try block around the CSV export: the entities it yields; <<>> when the
\* request or raise_for_status() raised (except Exception: pass), when the body
\* has no usable row, or when no row is kept.
OfacTryCsv(resp) ==
    IF resp.kind = "ok" THEN OfacCsvEntities(resp.rows) ELSE <<>>

\* The try block around one XML export (except Exception: continue).
OfacTryXml(resp) ==
    IF resp.kind = "ok" THEN Ofac_parse_sdn_xml(resp.rows) ELSE <<>>

\* _load_sdn_entities; net gives the response of each export
Ofac_load_sdn_entities(c, t, net) ==
    IF CacheFresh(c, t) THEN Loaded(c.ents, c, <<>>)
    ELSE IF net["csv"] = Pending THEN LoadWaiting(c, <<"csv">>)
    ELSE IF OfacTryCsv(net["csv"]) # <<>>
         THEN Loaded(OfacTryCsv(net["csv"]), CacheOf(t, OfacTryCsv(net["csv"])), <<"csv">>)
    ELSE IF net["xml"] = Pending THEN LoadWaiting(c, <<"csv", "xml">>)
    ELSE IF OfacTryXml(net["xml"]) # <<>>
         THEN Loaded(OfacTryXml(net["xml"]), CacheOf(t, OfacTryXml(net["xml"])),
                     <<"csv", "xml">>)
    ELSE IF net["adv_xml"] = Pending THEN LoadWaiting(c, <<"csv", "xml", "adv_xml">>)
    ELSE IF OfacTryXml(net["adv_xml"]) # <<>>
         THEN Loaded(OfacTryXml(net["adv_xml"]), CacheOf(t, OfacTryXml(net["adv_xml"])),
                     <<"csv", "xml", "adv_xml">>)
    ELSE LoadNothing(c, t, <<"csv", "xml", "adv_xml">>)

\* A loop that scores an entity by the best of its name and its aliases; C15
\* must tell it from OfacMatches.
RECURSIVE OfacMatchesAnyName(_, _, _)
OfacMatchesAnyName(cleaned, entries, threshold) ==
    IF entries = <<>> THEN <<>>
    ELSE LET e == Head(entries)
             scores == {Ofac_calculate_match_score(cleaned, e.name)} \cup
                       {Ofac_calculate_match_score(cleaned, e.aliases[i]) :
                            i \in 1..Len(e.aliases)}
             sc == CHOOSE x \in scores : \A y \in scores : ScoreGeq(x, y)
             rest == OfacMatchesAnyName(cleaned, Tail(entries), threshold)
         IN  IF ScoreGeq(sc, threshold) THEN <<Match(e, sc, "OFAC SDN")>> \o rest
             ELSE rest

\* for e in entries: score = ...; if score >= threshold: matches.append({...})
RECURSIVE OfacMatches(_, _, _)
OfacMatches(cleaned, entries, threshold) ==
    IF entries = <<>> THEN <<>>
    ELSE LET sc == Ofac_calculate_match_score(cleaned, Head(entries).name)
             rest == OfacMatches(cleaned, Tail(entries), threshold)
         IN  IF ScoreGeq(sc, threshold)
             THEN <<Match(Head(entries), sc, "OFAC SDN")>> \o rest
             ELSE rest

\* OFACClient.search_company
Ofac_search_company(c, t, company_name, threshold, net) ==
    IF company_name = NoneName
    THEN SearchExcept(company_name, MsgNoneName, c, <<>>)
    ELSE LET cleaned == Ofac_clean_company_name(company_name)
             ld == Ofac_load_sdn_entities(c, t, net)
         IN  IF ld.wait THEN Blocked(ld.cache, ld.urls)
             ELSE IF threshold = NoneThr /\ ld.entities # <<>>
             THEN SearchExcept(company_name, MsgNoneThr, ld.cache, ld.urls)
             ELSE Outcome(FoundEnvelope(company_name,
                              OfacMatches(cleaned, ld.entities, threshold)),
                          ld.cache, ld.urls, ld.entities)

-----------------------------------------------------------------------------
(* EUSanctionsClient *)

\* _parse_xml_entities: the sanctionEntity nodes that have a name
RECURSIVE Eu_parse_xml_entities(_)
Eu_parse_xml_entities(rows) ==
    IF rows = <<>> THEN <<>>
    ELSE IF Head(rows).type # "Individual" /\ Head(rows).name # <<>>
         THEN <<Entity(Head(rows), "Entity")>> \o Eu_parse_xml_entities(Tail(rows))
         ELSE Eu_parse_xml_entities(Tail(rows))

\* _parse_csv_entities: rows whose subject type is not person/individual and
\* that have a name
RECURSIVE Eu_parse_csv_entities(_)
Eu_parse_csv_entities(rows) ==
    IF rows = <<>> THEN <<>>
    ELSE IF Head(rows).subj # "" /\ Head(rows).subj \in {"person", "individual"}
         THEN Eu_parse_csv_entities(Tail(rows))
    ELSE IF Head(rows).name = <<>> THEN Eu_parse_csv_entities(Tail(rows))
    ELSE <<CsvEntity(Head(rows), "Entity")>> \o Eu_parse_csv_entities(Tail(rows))

\* A test that accepts every answer, whatever its status; C22 must tell it
\* from EuDelivered.
EuDeliveredAnyStatus(resp) == resp.kind # "neterr"

\* r.status_code == 200 and r.content
EuDelivered(resp) == resp.kind \in {"ok", "unparsable"}

\* _get_first_success([first, second]): the response returned (Pending for
\* None), the URLs requested, and whether a GET is awaited or an exception that
\* is no requests.RequestException left the function.
GetResult(resp, urls, raised, wait) ==
    [resp |-> resp, urls |-> urls, raised |-> raised, wait |-> wait]

Eu_get_first_success(net, first, second) ==
    IF net[first] = Pending THEN GetResult(Pending, <<first>>, FALSE, TRUE)
    ELSE IF net[first].kind = "raise" THEN GetResult(Pending, <<first>>, TRUE, FALSE)
    ELSE IF EuDelivered(net[first]) THEN GetResult(net[first], <<first>>, FALSE, FALSE)
    ELSE IF net[second] = Pending THEN GetResult(Pending, <<first, second>>, FALSE, TRUE)
    ELSE IF net[second].kind = "raise"
         THEN GetResult(Pending, <<first, second>>, TRUE, FALSE)
    ELSE IF EuDelivered(net[second])
         THEN GetResult(net[second], <<first, second>>, FALSE, FALSE)
    ELSE GetResult(Pending, <<first, second>>, FALSE, FALSE)

\* the second half of _load_entities: the CSV export, then the empty list
EuLoadCsv(c, t, net, urls) ==
    LET g == Eu_get_first_success(net, "csv", "csv_token")
    IN  IF g.wait THEN LoadWaiting(c, urls \o g.urls)
        ELSE IF g.raised THEN LoadRaised(c, urls \o g.urls, MsgOther)
        ELSE IF g.resp # Pending
             THEN \* csv.DictReader does not raise on a body that is no CSV: its rows
                  \* have no name and none is kept
                  LET ents == IF g.resp.kind = "ok"
                              THEN Eu_parse_csv_entities(g.resp.rows) ELSE <<>>
                  IN  Loaded(ents, CacheOf(t, ents), urls \o g.urls)
        ELSE LoadNothing(c, t, urls \o g.urls)

\* _load_entities
Eu_load_entities(c, t, net) ==
    IF CacheFresh(c, t) THEN Loaded(c.ents, c, <<>>)
    ELSE LET g == Eu_get_first_success(net, "xml", "xml_token")
         IN  IF g.wait THEN LoadWaiting(c, g.urls)
             ELSE IF g.raised THEN LoadRaised(c, g.urls, MsgOther)
             ELSE IF g.resp # Pending /\ g.resp.kind = "ok"
                  THEN Loaded(Eu_parse_xml_entities(g.resp.rows),
                              CacheOf(t, Eu_parse_xml_entities(g.resp.rows)), g.urls)
             ELSE EuLoadCsv(c, t, net, g.urls)

RECURSIVE EuMatches(_, _, _)
EuMatches(cleaned, entities, threshold) ==
    IF entities = <<>> THEN <<>>
    ELSE LET sc == Eu_calculate_match_score(cleaned, Head(entities).name)
             rest == EuMatches(cleaned, Tail(entities), threshold)
         IN  IF ScoreGeq(sc, threshold)
             THEN <<Match(Head(entities), sc, "EU Consolidated List")>> \o rest
             ELSE rest

\* EUSanctionsClient.search_company
Eu_search_company(c, t, company_name, threshold, net) ==
    IF company_name = NoneName
    THEN SearchExcept(company_name, MsgNoneNameLower, c, <<>>)
    ELSE LET cleaned == Eu_clean_company_name(company_name)
             ld == Eu_load_entities(c, t, net)
         IN  IF ld.wait THEN Blocked(ld.cache, ld.urls)
             ELSE IF ld.raised THEN SearchExcept(company_name, ld.exc, ld.cache, ld.urls)
             ELSE IF threshold = NoneThr /\ ld.entities # <<>>
             THEN SearchExcept(company_name, MsgNoneThr, ld.cache, ld.urls)
             ELSE Outcome(FoundEnvelope(company_name,
                              EuMatches(cleaned, ld.entities, threshold)),
                          ld.cache, ld.urls, ld.entities)

\* One nameAlias entry of a sanctionEntity node: its wholeName text (<<>>
\* when it has none) and the text of its strong flag.
NameAlias(whole, strong) == [whole |-> whole, strong |-> strong]
AliasNames == { <<>>, <<"A">>, <<"C">>, <<"S">> }
NameAliases == { NameAlias(w, f) : w \in AliasNames, f \in {"true", "false"} }
RECURSIVE NodesOfLen(_)
NodesOfLen(n) ==
    IF n = 0 THEN { <<>> }
    ELSE { Append(nd, na) : nd \in NodesOfLen(n - 1), na \in NameAliases }
Nodes == UNION { NodesOfLen(n) : n \in 0..MaxAliases }

Names(primary, aliases) == [primary |-> primary, aliases |-> aliases]

\* the loop of _extract_names over the nameAlias entries: a named entry with
\* strong == "true" is assigned to primary, any other named entry is
\* appended to aliases
RECURSIVE EuNameLoop(_, _)
EuNameLoop(nas, acc) ==
    IF nas = <<>> THEN acc
    ELSE LET na == Head(nas)
         IN  IF na.whole = <<>> THEN EuNameLoop(Tail(nas), acc)
             ELSE IF na.strong = "true"
                  THEN EuNameLoop(Tail(nas), Names(na.whole, acc.aliases))
             ELSE EuNameLoop(Tail(nas), Names(acc.primary, Append(acc.aliases, na.whole)))

\* _first_text(node, {"name", "wholeName", "wholename"}): the text of the
\* first descendant with such a tag and a text
RECURSIVE EuDirectName(_)
EuDirectName(nas) ==
    IF nas = <<>> THEN <<>>
    ELSE IF Head(nas).whole # <<>> THEN Head(nas).whole
    ELSE EuDirectName(Tail(nas))

\* _extract_names
Eu_extract_names(nas) ==
    LET looped == EuNameLoop(nas, Names(<<>>, <<>>))
    IN  IF looped.primary = <<>> THEN Names(EuDirectName(nas), looped.aliases)
        ELSE looped

\* _parse_subject, as far as names go: None for a node without any name
NoneSubject == [none |-> TRUE, name |-> <<>>, aliases |-> <<>>]
Eu_parse_subject(nas) ==
    LET nm == Eu_extract_names(nas)
    IN  IF nm.primary = <<>> /\ nm.aliases = <<>> THEN NoneSubject
        ELSE [none |-> FALSE,
              name |-> IF nm.primary # <<>> THEN nm.primary ELSE nm.aliases[1],
              aliases |-> nm.aliases]

NoNode == << NameAlias(<<"<unset>">>, "") >>
NoSubject == [none |-> TRUE, name |-> <<"<unset>">>, aliases |-> <<>>]
NamesIdle == node = NoNode /\ subject = NoSubject

-----------------------------------------------------------------------------
(* OpenSanctionsClient *)

\* _search_api: data.get('results', []) on a 200; [] on any other status and
\* on a requests exception; any other exception leaves the function
Os_search_api(net) ==
    IF net["search"] = Pending THEN LoadWaiting(NoCache, <<"search">>)
    ELSE IF net["search"].kind = "raise" THEN LoadRaised(NoCache, <<"search">>, MsgOther)
    ELSE IF net["search"].kind = "ok" THEN Loaded(net["search"].rows, NoCache, <<"search">>)
    ELSE Loaded(<<>>, NoCache, <<"search">>)

\* the result loop: score = result.get('score', 0) / 100; kept if >= threshold
RECURSIVE OsMatches(_, _)
OsMatches(results, threshold) ==
    IF results = <<>> THEN <<>>
    ELSE LET sc == <<Head(results).score, 100>>
             rest == OsMatches(Tail(results), threshold)
             e == [name |-> Head(results).name, id |-> Head(results).id,
                   type |-> "Company", truth |-> "Entity", aliases |-> <<>>]
         IN  IF ScoreGeq(sc, threshold) THEN <<Match(e, sc, "OpenSanctions")>> \o rest
             ELSE rest

\* the message of the first exception the result loop raises, "" when none
RECURSIVE OsLoopRaises(_, _)
OsLoopRaises(results, threshold) ==
    IF results = <<>> THEN ""
    ELSE IF Head(results).score = NoneScore THEN MsgNoneScore
    ELSE IF threshold = NoneThr THEN MsgNoneThr
    ELSE OsLoopRaises(Tail(results), threshold)

\* OpenSanctionsClient.search_company
Os_search_company(company_name, threshold, net) ==
    IF company_name = NoneName
    THEN SearchExcept(company_name, MsgNoneNameLower, NoCache, <<>>)
    ELSE LET cleaned == Os_clean_company_name(company_name)
             ld == Os_search_api(net)
         IN  IF ld.wait THEN Blocked(NoCache, ld.urls)
             ELSE IF ld.raised THEN SearchExcept(company_name, ld.exc, NoCache, ld.urls)
             ELSE IF OsLoopRaises(ld.entities, threshold) # ""
             THEN SearchExcept(company_name, OsLoopRaises(ld.entities, threshold),
                               NoCache, ld.urls)
             ELSE Outcome(FoundEnvelope(company_name, OsMatches(ld.entities, threshold)),
                          NoCache, ld.urls, ld.entities)

-----------------------------------------------------------------------------
(* The Streamlit script app.py: its state and the dicts it records *)

\* the api_responses rows, the assessments and the distinct app hours explored
MaxSaved == 3
MaxAssessments == 2
MaxAppTime == 1
MaxCost == 2

\* What the script stores under ofac_result / os_result and hands to
\* save_api_response. A key the dict lacks carries the default its readers
\* use (.get("matches", []), .get("match_count", 0)). origin is no key of the
\* dict: it records the status search_company returned in the handler that
\* built the dict, "<none>" when search_company did not run there.
Result(status, matches, match_count, error, origin) ==
    [status |-> status, matches |-> matches, match_count |-> match_count,
     error |-> error, origin |-> origin]

\* st.session_state.get('ofac_result', {})
NoResult == Result("<unset>", <<>>, 0, "<absent>", "<none>")

\* ofac_res = client.search_company(st.session_state.company_name)
SearchResult(env) ==
    Result(env.status, env.matches, env.match_count, env.error, env.status)

\* {"status": "clear", "matches": []}
ClearDict == Result("clear", <<>>, 0, "<absent>", "<none>")

\* {"status": "error", "error": str(e)}
ErrorDict(message, origin) == Result("error", <<>>, 0, message, origin)

MsgNoExplainOfac == "name 'explain_ofac' is not defined"
MsgOsInit == "OpenSanctionsClient.__init__() takes 1 positional argument but 2 were given"

\* state_defaults, and the keys step 2 adds (0 and "" for a key not set yet)
NoSession ==
    [assessment_id |-> 0, step |-> 1, total_cost |-> 0, company_name |-> <<>>,
     ofac_result |-> NoResult, os_result |-> NoResult,
     ofac_summary |-> "", os_summary |-> "", combined_summary |-> "",
     ofac_page |-> 0, os_page |-> 0]

\* The tables: assessments (their number; ids are 1, 2, ...), api_responses
\* in insertion order, and the distinct risk_findings rows.
NoDb == [assessments |-> 0, api_responses |-> <<>>, risk_findings |-> {}]

\* SupabaseManager.save_api_response
save_api_response(d, assessment_id, api_name, response_data) ==
    [d EXCEPT !.api_responses =
        Append(@, [assessment_id |-> assessment_id, api_name |-> api_name,
                   response_data |-> response_data])]

\* A severity that is critical from 0.9 upwards; C18 must tell it from
\* Severity.
SeverityInclusive(m) == IF m.match_score >= 90 THEN "critical" ELSE "high"

\* sev = "critical" if (m.get("match_score") or 0) > 0.9 else "high"
Severity(m) == IF m.match_score > 90 THEN "critical" ELSE "high"

\* the loop over matches calling SupabaseManager.add_risk_finding
add_risk_findings(d, assessment_id, res, api_name) ==
    IF res.status # "found_matches" THEN d
    ELSE [d EXCEPT !.risk_findings = @ \cup
            { [assessment_id |-> assessment_id, risk_category |-> "Sanctions",
               severity |-> Severity(res.matches[i]), name |-> res.matches[i].name,
               source_api |-> api_name, raw_data |-> res.matches[i]] :
                  i \in 1..Len(res.matches) }]

\* the names typed into the form and the responses the exports give
AppQueries == Queries \ {NoneName}
\* batch_size = 10
BatchSize == 10

\* a list with more matches for "a" than one batch holds
RowsMany == [i \in 1..(BatchSize + 1) |-> Row(<<"A">>, "Entity", "enterprise", 10 + i)]

AppResponses ==
    { Resp("neterr", <<>>), Resp("ok", RowsV1), Resp("ok", <<>>), Resp("ok", RowsMany) }

\* what the two XML exports answer when the CSV export yielded nothing
AppFallbackResponses == { Resp("neterr", <<>>), Resp("ok", RowsV1) }

\* One run of the script: the widget event that started it ("none" for a run
\* started by st.rerun() or a page load), the message of the exception that
\* ended it ("" when none did), and whether it ended in st.rerun().
Ran(event, exc, rerun) == [event |-> event, exc |-> exc, rerun |-> rerun]
NoRun == Ran("<none>", "", FALSE)
MsgNoExplainBatch == "name 'explain_batch' is not defined"

AppIdle ==
    /\ session = NoSession
    /\ db = NoDb
    /\ calls = <<>>
    /\ run = NoRun

-----------------------------------------------------------------------------
(* Threads sharing one client: their state *)

NoThread ==
    [pc |-> "idle", url |-> 0, rest |-> <<>>, entities |-> <<>>, got |-> <<>>,
     scored |-> <<>>]
Threads == {1, 2}

ConcIdle == threads = [t \in Threads |-> NoThread]

-----------------------------------------------------------------------------
(* A long-lived client instance and its sequential callers: Spec *)

\* search_company of the client under test
SearchCompany(src, c, t, company_name, threshold, net) ==
    IF src = "OFAC" THEN Ofac_search_company(c, t, company_name, threshold, net)
    ELSE IF src = "EU" THEN Eu_search_company(c, t, company_name, threshold, net)
    ELSE Os_search_company(company_name, threshold, net)

NoCall ==
    [active |-> FALSE, name |-> <<>>, thr |-> DefaultThreshold, net |-> NoResponses,
     urls |-> <<>>]
NoLast ==
    [src |-> "<none>", at |-> -1, before |-> NoCache, thr |-> DefaultThreshold,
     kinds |-> {}, out |-> Blocked(NoCache, <<>>)]

\* the kinds of the responses received
KindsOf(net) == { net[u].kind : u \in { v \in AllUrls : net[v] # Pending } }

\* the call returns: its effect on the instance and the record of what it did
Return(src, company_name, threshold, net, out) ==
    /\ cache' = out.cache
    /\ last' = [src |-> src, at |-> now, before |-> cache, thr |-> threshold,
                kinds |-> KindsOf(net), out |-> out]
    /\ inflight' = NoCall

\* the call runs until it returns or blocks in its next GET
Run(src, company_name, threshold, net) ==
    LET out == SearchCompany(src, cache, now, company_name, threshold, net)
    IN  IF out.wait
        THEN /\ inflight' = [active |-> TRUE, name |-> company_name,
                             thr |-> threshold, net |-> net, urls |-> out.urls]
             /\ last' = NoLast
             /\ UNCHANGED cache
        ELSE Return(src, company_name, threshold, net, out)

\* a caller calls client.search_company(company_name, threshold)
StartSearch(src) ==
    /\ client = src
    /\ ~inflight.active
    /\ \E company_name \in Queries, threshold \in Thresholds :
           Run(src, company_name, threshold, NoResponses)
    /\ UNCHANGED <<pureVars, sufOrder, now, appVars, concVars>>

\* the GET the call is blocked in is answered with r
Answer(src, r) ==
    /\ client = src
    /\ inflight.active
    /\ LET url == inflight.urls[Len(inflight.urls)]
       IN  Run(src, inflight.name, inflight.thr, [inflight.net EXCEPT ![url] = r])
    /\ UNCHANGED <<pureVars, sufOrder, now, appVars, concVars>>

OfacSearch == StartSearch("OFAC")
OfacGet == \E r \in Responses \ {Resp("auth", <<>>)} : Answer("OFAC", r)
EuSearch == StartSearch("EU")
EuGet == \E r \in Responses \ {Resp("auth", <<>>)} : Answer("EU", r)
OsSearch == StartSearch("OS")
OsGet == \E r \in OsResponses : Answer("OS", r)

\* an hour passes (no call is in progress: a call takes seconds)
Tick ==
    /\ ~inflight.active
    /\ now < MaxTime
    /\ now' = now + 1
    /\ last' = NoLast
    /\ UNCHANGED <<pureVars, sufOrder, cache, inflight, appVars, concVars>>

ClientIdle ==
    /\ now = 0
    /\ cache = NoCache
    /\ inflight = NoCall
    /\ last = NoLast

PureIdle ==
    /\ argA = NoStr /\ argB = NoStr /\ once = NoStr /\ twice = NoStr
    /\ score = NoScore
    /\ NamesIdle

Init ==
    /\ client \in {"OFAC", "EU", "OS"}
    /\ PureIdle
    /\ sufOrder \in OfacSortedOrders
    /\ ClientIdle
    /\ AppIdle
    /\ ConcIdle

Next == OfacSearch \/ OfacGet \/ EuSearch \/ EuGet \/ OsSearch \/ OsGet \/ Tick

Spec == Init /\ [][Next]_vars

\* the latest call has returned (or let an exception escape)
Returned == last.src # "<none>"

-----------------------------------------------------------------------------
(* One call of a normalizer: SpecNorm *)

InitNorm ==
    /\ client \in {"OFAC", "EU", "OS"}
    /\ argA \in NormInputs
    /\ argB = NoStr
    /\ once = NoStr
    /\ twice = NoStr
    /\ score = NoScore
    /\ NamesIdle
    /\ sufOrder \in OfacSortedOrders
    /\ ClientIdle
    /\ AppIdle
    /\ ConcIdle

\* s1 = client._clean_company_name(s); s2 = client._clean_company_name(s1)
CleanOfac ==
    /\ client = "OFAC" /\ once = NoStr
    /\ once' = Ofac_clean_company_name(argA)
    /\ twice' = Ofac_clean_company_name(once')
    /\ UNCHANGED <<client, argA, argB, score, sufOrder, node, subject, clientVars,
                   appVars, concVars>>

CleanEu ==
    /\ client = "EU" /\ once = NoStr
    /\ once' = Eu_clean_company_name(argA)
    /\ twice' = Eu_clean_company_name(once')
    /\ UNCHANGED <<client, argA, argB, score, sufOrder, node, subject, clientVars,
                   appVars, concVars>>

CleanOs ==
    /\ client = "OS" /\ once = NoStr
    /\ once' = Os_clean_company_name(argA)
    /\ twice' = Os_clean_company_name(once')
    /\ UNCHANGED <<client, argA, argB, score, sufOrder, node, subject, clientVars,
                   appVars, concVars>>

NextNorm == CleanOfac \/ CleanEu \/ CleanOs

SpecNorm == InitNorm /\ [][NextNorm]_vars

-----------------------------------------------------------------------------
(* One call of a scorer: SpecScore *)

InitScore ==
    /\ client \in {"OFAC", "EU"}
    /\ argA \in ScoreInputs
    /\ argB \in ScoreInputs
    /\ once = NoStr
    /\ twice = NoStr
    /\ score = NoScore
    /\ NamesIdle
    /\ sufOrder \in OfacSortedOrders
    /\ ClientIdle
    /\ AppIdle
    /\ ConcIdle

ScoreOfac ==
    /\ client = "OFAC" /\ score = NoScore
    /\ score' = Ofac_calculate_match_score(argA, argB)
    /\ UNCHANGED <<client, argA, argB, once, twice, sufOrder, node, subject,
                   clientVars, appVars, concVars>>

ScoreEu ==
    /\ client = "EU" /\ score = NoScore
    /\ score' = Eu_calculate_match_score(argA, argB)
    /\ UNCHANGED <<client, argA, argB, once, twice, sufOrder, node, subject,
                   clientVars, appVars, concVars>>

NextScore == ScoreOfac \/ ScoreEu

SpecScore == InitScore /\ [][NextScore]_vars

-----------------------------------------------------------------------------
(* One call of the EU parser on a sanctionEntity node: SpecNames *)

InitNames ==
    /\ client = "EU"
    /\ argA = NoStr /\ argB = NoStr /\ once = NoStr /\ twice = NoStr
    /\ score = NoScore
    /\ node \in Nodes
    /\ subject = NoSubject
    /\ sufOrder \in OfacSortedOrders
    /\ ClientIdle
    /\ AppIdle
    /\ ConcIdle

\* ent = self._parse_subject(node)
ParseSubject ==
    /\ subject = NoSubject
    /\ subject' = Eu_parse_subject(node)
    /\ UNCHANGED <<client, argA, argB, once, twice, score, sufOrder, node, clientVars,
                   appVars, concVars>>

NextNames == ParseSubject

SpecNames == InitNames /\ [][NextNames]_vars

-----------------------------------------------------------------------------
(* The Streamlit script app.py, steps 1 and 2: SpecApp *)

\* Each action is one run of the script, from the event that starts it to the
\* st.rerun() (or the end of the script) that ends it. The database accepts
\* every insert.

\* if 'ofac_page' not in st.session_state: ... (and the same for os_page)
Step2Prelude(s) ==
    [s EXCEPT !.ofac_page = IF @ = 0 THEN 1 ELSE @,
              !.os_page = IF @ = 0 THEN 1 ELSE @]

\* the record of a search_company call made by the script (latest two kept)
Called(at, out) ==
    LET c == [at |-> at, urls |-> out.urls, scored |-> out.scored]
    IN  IF Len(calls) < 2 THEN Append(calls, c) ELSE <<calls[2], c>>

\* A form that starts an assessment whatever the name field holds; C30 must
\* tell it from Submittable.
SubmittableAnyName(company_name) == TRUE

\* if submitted and company_name:
Submittable(company_name) == company_name # <<>>

MsgCreateFailed == "Error creating assessment"

\* step 1: the form is submitted with what the name field holds; created: the
\* insert of db.create_assessment succeeded. Without a name nothing happens;
\* a failed insert is reported by st.error and the run ends on step 1.
SubmitCompany ==
    /\ session.step = 1
    /\ db.assessments < MaxAssessments
    /\ \E company_name \in AppQueries \cup {<<>>}, created \in BOOLEAN :
           IF ~Submittable(company_name)
           THEN /\ run' = Ran("submit", "", FALSE)
                /\ UNCHANGED <<session, db>>
           ELSE IF ~created
           THEN /\ run' = Ran("submit", MsgCreateFailed, FALSE)
                /\ UNCHANGED <<session, db>>
           ELSE /\ db' = [db EXCEPT !.assessments = @ + 1]
                /\ session' = [session EXCEPT !.assessment_id = db.assessments + 1,
                                              !.company_name = company_name,
                                              !.step = 2]
                /\ run' = Ran("submit", "", TRUE)
    /\ UNCHANGED <<pureVars, sufOrder, clientVars, calls, concVars>>

\* step 2: "Check OFAC SDN" is pressed. ofac_available: the import of the
\* client succeeded in this run; ai: AI_SUMMARY_ENABLED in this run, without
\* which explain_ofac is an undefined name.
ClickCheckOfac ==
    /\ session.step = 2
    /\ Len(db.api_responses) + 2 <= MaxSaved
    /\ \E ofac_available, ai \in BOOLEAN, r1 \in AppResponses,
          r2, r3 \in AppFallbackResponses :
           LET s0 == Step2Prelude(session)
               net == [NoResponses EXCEPT !["csv"] = r1, !["xml"] = r2,
                                          !["adv_xml"] = r3]
               \* client = OFACClient(); client.search_company(company_name)
               out == Ofac_search_company(NoCache, now, s0.company_name,
                                          DefaultThreshold, net)
               ofac_res == SearchResult(out.env)
               db1 == add_risk_findings(
                          save_api_response(db, s0.assessment_id, "OFAC_SDN", ofac_res),
                          s0.assessment_id, ofac_res, "OFAC_SDN")
               failed == ErrorDict(MsgNoExplainOfac, out.env.status)
           IN  IF ~ofac_available
               THEN /\ session' = [s0 EXCEPT !.ofac_summary = "not available",
                                             !.ofac_result = ClearDict]
                    /\ db' = save_api_response(db, s0.assessment_id, "OFAC_SDN",
                                               ClearDict)
                    /\ UNCHANGED calls
               ELSE IF ai
               THEN /\ session' = [s0 EXCEPT !.ofac_result = ofac_res,
                                             !.ofac_page = 1,
                                             !.ofac_summary = "summary"]
                    /\ db' = db1
                    /\ calls' = Called(now, out)
               ELSE /\ session' = [s0 EXCEPT !.ofac_result = failed,
                                             !.ofac_page = 1,
                                             !.ofac_summary = "error"]
                    /\ db' = save_api_response(db1, s0.assessment_id, "OFAC_SDN",
                                               failed)
                    /\ calls' = Called(now, out)
    /\ run' = Ran("check_ofac", "", TRUE)
    /\ UNCHANGED <<pureVars, sufOrder, clientVars, concVars>>

\* remaining = max(0, match_count - (current_page * batch_size))
Remaining(res, current_page) ==
    IF res.match_count - current_page * BatchSize > 0
    THEN res.match_count - current_page * BatchSize ELSE 0

\* step 2: "Display More OFAC" is pressed. The button exists while remaining
\* > 0; explain_batch is not among the names app.py imports, so the call
\* raises NameError outside any try block and the run ends there, before
\* ofac_summary, ofac_page or total_cost are assigned.
ClickDisplayMoreOfac ==
    /\ session.step = 2
    /\ Remaining(session.ofac_result, Step2Prelude(session).ofac_page) > 0
    /\ session' = [session EXCEPT !.ofac_page = IF @ = 0 THEN 1 ELSE @]
    /\ run' = Ran("more_ofac", MsgNoExplainBatch, FALSE)
    /\ UNCHANGED <<pureVars, sufOrder, clientVars, db, calls, concVars>>

\* step 2: "Check OpenSanctions" is pressed. OpenSanctionsClient(...) is given
\* an argument its __init__ does not take: the TypeError is caught by the
\* handler's except block and search_company does not run.
ClickCheckOs ==
    /\ session.step = 2
    /\ Len(db.api_responses) + 1 <= MaxSaved
    /\ \E opensanctions_available \in BOOLEAN :
           LET s0 == Step2Prelude(session)
               os_res == IF opensanctions_available
                         THEN ErrorDict(MsgOsInit, "<none>") ELSE ClearDict
           IN  /\ session' = [s0 EXCEPT !.os_summary =
                                   IF opensanctions_available THEN "error"
                                   ELSE "not available",
                                        !.os_result = os_res]
               /\ db' = save_api_response(db, s0.assessment_id, "OpenSanctions", os_res)
    /\ run' = Ran("check_os", "", TRUE)
    /\ UNCHANGED <<pureVars, sufOrder, clientVars, calls, concVars>>

\* step 2: a run in which no button is pressed reaches the else branch of the
\* Continue button
IdleRender ==
    /\ session.step = 2
    /\ Len(db.api_responses) + 1 <= MaxSaved
    /\ session' = [Step2Prelude(session) EXCEPT !.os_summary = "not available",
                                                !.os_result = ClearDict]
    /\ db' = save_api_response(db, session.assessment_id, "OpenSanctions", ClearDict)
    /\ run' = Ran("none", "", TRUE)
    /\ UNCHANGED <<pureVars, sufOrder, clientVars, calls, concVars>>

\* the cost of one combined summary, in thousandths of a dollar
CombinedCost == 2

\* step 2: "Summarize Both Sanctions Findings" is pressed. The button exists
\* in a run with AI_SUMMARY_ENABLED once both results are set; explain_sanctions
\* returns a text (its own failures included).
ClickSummarizeBoth ==
    /\ session.step = 2
    /\ session.ofac_result # NoResult
    /\ session.os_result # NoResult
    /\ session.total_cost + CombinedCost <= MaxCost
    /\ session' = [Step2Prelude(session) EXCEPT !.combined_summary = "summary",
                                                !.total_cost = @ + CombinedCost]
    /\ run' = Ran("summarize_both", "", TRUE)
    /\ UNCHANGED <<pureVars, sufOrder, clientVars, db, calls, concVars>>

\* step 2: "Continue to Legal/Litigation Check" is pressed
ClickContinue ==
    /\ session.step = 2
    /\ session' = [Step2Prelude(session) EXCEPT !.step = 3]
    /\ run' = Ran("continue", "", TRUE)
    /\ UNCHANGED <<pureVars, sufOrder, clientVars, db, calls, concVars>>

\* step 3: "Continue to Regulatory Check" is pressed
ContinueToRegulatory ==
    /\ session.step = 3
    /\ session' = [session EXCEPT !.step = 4]
    /\ run' = Ran("continue", "", TRUE)
    /\ UNCHANGED <<pureVars, sufOrder, clientVars, db, calls, concVars>>

\* step 4: "Continue to Final Report" is pressed
ContinueToReport ==
    /\ session.step = 4
    /\ session' = [session EXCEPT !.step = 5]
    /\ run' = Ran("continue", "", TRUE)
    /\ UNCHANGED <<pureVars, sufOrder, clientVars, db, calls, concVars>>

\* sidebar: "Start New Assessment" is pressed; the keys of state_defaults are
\* reset
StartNewAssessment ==
    /\ session.assessment_id # 0
    /\ session' = [session EXCEPT !.assessment_id = 0, !.step = 1,
                                  !.total_cost = 0, !.company_name = <<>>]
    /\ run' = Ran("new_assessment", "", TRUE)
    /\ UNCHANGED <<pureVars, sufOrder, clientVars, db, calls, concVars>>

\* an hour passes between two runs of the script
AppTick ==
    /\ now < MaxAppTime
    /\ now' = now + 1
    /\ UNCHANGED <<pureVars, sufOrder, cache, inflight, last, appVars, concVars>>

InitApp ==
    /\ client = "OFAC"
    /\ PureIdle
    /\ sufOrder \in OfacSortedOrders
    /\ ClientIdle
    /\ AppIdle
    /\ ConcIdle

NextApp ==
    \/ SubmitCompany
    \/ ClickCheckOfac
    \/ ClickCheckOs
    \/ ClickDisplayMoreOfac
    \/ IdleRender
    \/ ClickSummarizeBoth
    \/ ClickContinue
    \/ ContinueToRegulatory
    \/ ContinueToReport
    \/ StartNewAssessment
    \/ AppTick

SpecApp == InitApp /\ [][NextApp]_vars

\* the dicts the script has recorded: in session state and in api_responses
Recorded ==
    {session.ofac_result, session.os_result}
        \cup { db.api_responses[i].response_data : i \in 1..Len(db.api_responses) }

-----------------------------------------------------------------------------
(* Threads calling search_company of one shared OFAC or EU client: SpecConc *)

\* Each action is one step of a thread between two points where another
\* thread can run: a read or a write of self._cache, a GET, one turn of a
\* parsing loop. A thread's locals: url (index of the export it requests),
\* rest (rows still to parse), entities (the list being built), got (what the
\* loader returned), scored (the list the scoring loop went over).

ConcResponses ==
    { Resp("neterr", <<>>), Resp("unparsable", <<>>), Resp("ok", RowsV1),
      Resp("ok", RowsV2) }

UrlsOf(src) == IF src = "OFAC" THEN OfacUrls ELSE EuUrls

\* the EU exports 1, 2 are XML, 3, 4 CSV; OFAC's export 1 is CSV, 2, 3 XML
IsCsvUrl(src, i) == IF src = "OFAC" THEN i = 1 ELSE i >= 3

\* one turn of the parsing loop: the entity a row gives, if it is kept
ParseRow(src, i, row) ==
    IF src = "OFAC"
    THEN IF IsCsvUrl(src, i) THEN OfacCsvEntities(<<row>>) ELSE Ofac_parse_sdn_xml(<<row>>)
    ELSE IF IsCsvUrl(src, i) THEN Eu_parse_csv_entities(<<row>>)
         ELSE Eu_parse_xml_entities(<<row>>)

\* all rows of an export parsed by the client's CSV or XML parser
ParseRowsOf(rows, csv) ==
    IF client = "OFAC"
    THEN IF csv THEN OfacCsvEntities(rows) ELSE Ofac_parse_sdn_xml(rows)
    ELSE IF csv THEN Eu_parse_csv_entities(rows) ELSE Eu_parse_xml_entities(rows)

\* A loop that may be left before its last row; C8 must tell it from
\* ParsedAll.
ParsedSome(th) == TRUE

\* the parsing loop has run to its end (the cache is assigned after it)
ParsedAll(th) == th.rest = <<>>

Set(t, th) == threads' = [threads EXCEPT ![t] = th]

\* a thread calls search_company
Call(t) ==
    /\ threads[t].pc = "idle"
    /\ Set(t, [NoThread EXCEPT !.pc = "check"])
    /\ UNCHANGED <<pureVars, sufOrder, clientVars, appVars>>

\* if self._cache and (datetime.utcnow() - self._cache[0]) < self._cache_ttl
CheckCache(t) ==
    /\ threads[t].pc = "check"
    /\ Set(t, IF CacheFresh(cache, now) THEN [threads[t] EXCEPT !.pc = "hit"]
               ELSE [threads[t] EXCEPT !.pc = "get", !.url = 1])
    /\ UNCHANGED <<pureVars, sufOrder, clientVars, appVars>>

\* return self._cache[1]
ReturnCached(t) ==
    /\ threads[t].pc = "hit"
    /\ Set(t, [threads[t] EXCEPT !.pc = "score", !.got = cache.ents])
    /\ UNCHANGED <<pureVars, sufOrder, clientVars, appVars>>

\* the thread after an export gave nothing to cache: the next export, or
\* self._cache = (datetime.utcnow(), []) after the last
NextExport(th, i) ==
    IF i < Len(UrlsOf(client))
    THEN [th EXCEPT !.pc = "get", !.url = i, !.rest = <<>>, !.entities = <<>>]
    ELSE [th EXCEPT !.pc = "store", !.rest = <<>>, !.entities = <<>>]

\* the GET of the export a thread requests is answered with r
Get(t, r) ==
    LET th == threads[t]
        i == th.url
    IN  /\ th.pc = "get"
        /\ Set(t,
              IF r.kind = "ok"
              THEN [th EXCEPT !.pc = "parse", !.rest = r.rows, !.entities = <<>>]
              ELSE IF client = "OFAC" THEN NextExport(th, i + 1)
              \* EU: a delivered body that cannot be parsed ends the XML
              \* attempt; as CSV it has no rows
              ELSE IF r.kind = "unparsable"
                   THEN IF IsCsvUrl("EU", i) THEN [th EXCEPT !.pc = "store"]
                        ELSE NextExport(th, 3)
              ELSE NextExport(th, i + 1))
        /\ UNCHANGED <<pureVars, sufOrder, clientVars, appVars>>

\* one turn of the loop over the rows
ParseStep(t) ==
    LET th == threads[t]
    IN  /\ th.pc = "parse"
        /\ th.rest # <<>>
        /\ Set(t, [th EXCEPT !.rest = Tail(@),
                             !.entities = @ \o ParseRow(client, th.url, Head(th.rest))])
        /\ UNCHANGED <<pureVars, sufOrder, clientVars, appVars>>

\* after the loop: OFAC caches and returns a non-empty list and otherwise
\* tries the next export; EU caches and returns what it parsed
EndParse(t) ==
    LET th == threads[t]
    IN  /\ th.pc = "parse"
        /\ ParsedAll(th)
        /\ IF client = "OFAC" /\ th.entities = <<>>
           THEN /\ Set(t, NextExport(th, th.url + 1))
                /\ UNCHANGED cache
           ELSE /\ cache' = CacheOf(now, th.entities)
                /\ Set(t, [th EXCEPT !.pc = "score", !.got = th.entities])
        /\ UNCHANGED <<pureVars, sufOrder, now, inflight, last, appVars>>

\* self._cache = (datetime.utcnow(), []); return []
StoreEmpty(t) ==
    /\ threads[t].pc = "store"
    /\ cache' = CacheOf(now, <<>>)
    /\ Set(t, [threads[t] EXCEPT !.pc = "score", !.got = <<>>])
    /\ UNCHANGED <<pureVars, sufOrder, now, inflight, last, appVars>>

\* the scoring loop over the list the loader returned
Score(t) ==
    /\ threads[t].pc = "score"
    /\ Set(t, [threads[t] EXCEPT !.pc = "done", !.scored = threads[t].got])
    /\ UNCHANGED <<pureVars, sufOrder, clientVars, appVars>>

\* search_company returns
Finish(t) ==
    /\ threads[t].pc = "done"
    /\ Set(t, NoThread)
    /\ UNCHANGED <<pureVars, sufOrder, clientVars, appVars>>

\* the TTL passes while no call is in progress
TtlPasses ==
    /\ \A t \in Threads : threads[t].pc = "idle"
    /\ now + CacheTtl <= MaxTime
    /\ now' = now + CacheTtl
    /\ UNCHANGED <<pureVars, sufOrder, cache, inflight, last, appVars, concVars>>

InitConc ==
    /\ client \in {"OFAC", "EU"}
    /\ PureIdle
    /\ sufOrder \in OfacSortedOrders
    /\ ClientIdle
    /\ AppIdle
    /\ ConcIdle

NextConc ==
    \/ \E t \in Threads :
           \/ Call(t)
           \/ CheckCache(t)
           \/ ReturnCached(t)
           \/ \E r \in ConcResponses : Get(t, r)
           \/ ParseStep(t)
           \/ EndParse(t)
           \/ StoreEmpty(t)
           \/ Score(t)
           \/ Finish(t)
    \/ TtlPasses

SpecConc == InitConc /\ [][NextConc]_vars

\* the lists one fetch-and-parse of an export of the client can give
CompleteLists ==
    { ParseRowsOf(rows, csv) : rows \in RowLists, csv \in BOOLEAN } \cup {<<>>}

-----------------------------------------------------------------------------
(* Observations the properties are stated on *)

\* the responses of the latest call were all failures of the kinds a fetch
\* fails with: a network error, a status other than 200, a body that is empty
\* or cannot be parsed
FetchFailures == {"neterr", "non200", "empty", "unparsable"}
AllFetchesFailed == last.kinds # {} /\ last.kinds \subseteq FetchFailures

\* the latest call found a cache entry whose age was at least the TTL
FoundStale == ~last.before.none /\ (last.at - last.before.ts) >= CacheTtl

-----------------------------------------------------------------------------
(* C1 *)

\* C1: every envelope returned by search_company of the OFAC, EU and
\* OpenSanctions clients, on the success and on the error path and after any
\* sequence of earlier searches, has status = "found_matches" exactly when
\* match_count > 0, exactly when matches is non-empty.
C1_EnvelopeInvariant ==
    (Returned /\ ~last.out.escaped) =>
        LET e == last.out.env
        IN  /\ (e.status = "found_matches") <=> (e.match_count > 0)
            /\ (e.match_count > 0) <=> (e.matches # <<>>)

\* a search against entities loaded by an earlier search returns matches
C1_Witness ==
    /\ Returned
    /\ last.out.urls = <<>>
    /\ last.out.env.status = "found_matches"
    /\ last.out.env.match_count > 0

-----------------------------------------------------------------------------
(* C2 *)

\* C2 as claimed: in step 2 a source is recorded with status "clear", in
\* session state or in a saved API response, only if its search_company ran
\* in that handler and returned "clear"; a source that was not checked is
\* never recorded as "clear".
C2_ClearOnlyIfSearched ==
    \A r \in Recorded : r.status = "clear" => r.origin = "clear"

-----------------------------------------------------------------------------
(* C3 *)

\* C3 as claimed: when the OpenSanctions API rejects the request (401/403:
\* missing or invalid API key), search_company returns status "error" with an
\* error message, never "clear".
C3_AuthFailureIsError ==
    (Returned /\ last.src = "OS" /\ "auth" \in last.kinds) =>
        /\ last.out.env.status = "error"
        /\ last.out.env.error # "<absent>"

-----------------------------------------------------------------------------
(* C4 *)

\* C4: search_company of each sanctions client never lets an exception reach
\* its caller; an exception raised while normalizing, loading or scoring comes
\* back as an envelope with status "error", no matches, match_count 0 and the
\* exception's message in error.
C4_NoExceptionEscapes ==
    Returned =>
        /\ ~last.out.escaped
        /\ last.out.exc # "" =>
               /\ last.out.env.status = "error"
               /\ last.out.env.matches = <<>>
               /\ last.out.env.match_count = 0
               /\ last.out.env.error = last.out.exc

\* an exception raised by a GET of the EU loader came back as an error envelope
C4_Witness ==
    /\ Returned
    /\ last.src = "EU"
    /\ "raise" \in last.kinds
    /\ last.out.exc = MsgOther
    /\ last.out.env.status = "error"

-----------------------------------------------------------------------------
(* C5 *)

\* C5: when every fetch attempt of an OFAC or EU search fails (network error,
\* non-200 status, empty or unparsable body), search_company returns status
\* "clear" with match_count 0 and no matches, never "error", whatever the name
\* searched.
C5_FailedFetchIsClear ==
    (Returned /\ last.src \in {"OFAC", "EU"} /\ AllFetchesFailed) =>
        /\ last.out.env.status = "clear"
        /\ last.out.env.match_count = 0
        /\ last.out.env.matches = <<>>

\* an EU search whose four GETs failed returned "clear"
C5_Witness ==
    /\ Returned
    /\ last.src = "EU"
    /\ AllFetchesFailed
    /\ Len(last.out.urls) = 4
    /\ last.out.env.status = "clear"

-----------------------------------------------------------------------------
(* C6 *)

\* C6 as claimed: of two successive searches of the same source less than
\* the TTL apart, the second requests no URL and scores exactly the entities
\* the first loaded.
C6_SecondCallNoFetch ==
    (Len(calls) = 2 /\ (calls[2].at - calls[1].at) < CacheTtl) =>
        /\ calls[2].urls = <<>>
        /\ calls[2].scored = calls[1].scored

-----------------------------------------------------------------------------
(* C7 *)

\* C7: a cache entry of the OFAC or EU client whose age is at least the TTL
\* is not served: the search that finds it requests the exports anew (each
\* URL at most once) and, unless it ends in an error, scores the entities of
\* that fetch, which become the cache entry stamped with the time of the call.
C7_StaleNotServed ==
    (Returned /\ last.src \in {"OFAC", "EU"} /\ FoundStale
       /\ last.out.env.searched_name # NoneName) =>
        /\ last.out.urls # <<>>
        /\ \A i, j \in 1..Len(last.out.urls) :
               last.out.urls[i] = last.out.urls[j] => i = j
        /\ last.out.env.status # "error" =>
               last.out.cache = CacheOf(last.at, last.out.scored)

\* a search found an entry aged CacheTtl and scored a different, fresh list
C7_Witness ==
    /\ Returned
    /\ last.src = "OFAC"
    /\ FoundStale
    /\ last.at - last.before.ts = CacheTtl
    /\ last.out.urls # <<>>
    /\ last.out.scored # <<>>
    /\ last.out.scored # last.before.ents
    /\ last.out.cache = CacheOf(last.at, last.out.scored)

\* the normalized names the scorer compares
ScoredA == IF client = "OFAC" THEN Ofac_clean_company_name(argA)
           ELSE Eu_clean_company_name(argA)
ScoredB == IF client = "OFAC" THEN Ofac_clean_company_name(argB)
           ELSE Eu_clean_company_name(argB)
Containing == IsSubstring(ScoredA, ScoredB) \/ IsSubstring(ScoredB, ScoredA)
Scored == score # NoScore

-----------------------------------------------------------------------------
(* C8 *)

-----------------------------------------------------------------------------
(* C9 *)

\* C9 (amended): _calculate_match_score of the OFAC and EU clients gives 0.0
\* when either normalized name is empty, else 1.0 when they are equal, else
\* exactly 0.9 when one is a substring of the other, else the Jaccard index
\* |A n B| / |A u B| of their word sets; every score lies in [0,1], and a
\* non-equal, non-containing pair scores 1.0 only when the two names have the
\* same word set.
C9_TierRules ==
    Scored =>
        LET a == ScoredA
            b == ScoredB
            A == WordSet(a)
            B == WordSet(b)
        IN  /\ (a = <<>> \/ b = <<>>) => ScoreEq(score, <<0, 1>>)
            /\ (a # <<>> /\ a = b) => ScoreEq(score, <<1, 1>>)
            /\ (a # <<>> /\ b # <<>> /\ a # b /\ Containing) => ScoreEq(score, <<9, 10>>)
            /\ (a # <<>> /\ b # <<>> /\ a # b /\ ~Containing) =>
                   /\ score[1] * Cardinality(A \cup B) = score[2] * Cardinality(A \cap B)
                   /\ ScoreEq(score, <<1, 1>>) => A = B
            /\ ScoreGeq(score, <<0, 1>>)
            /\ ScoreGeq(<<1, 1>>, score)

\* a non-equal, non-containing pair scored by the Jaccard index, strictly
\* between 0 and 1
C9_Witness ==
    /\ Scored
    /\ ScoredA # <<>> /\ ScoredB # <<>>
    /\ ScoredA # ScoredB
    /\ ~Containing
    /\ ScoreGt(score, <<0, 1>>)
    /\ ScoreGt(<<1, 1>>, score)

\* C9 as claimed, last clause: a non-equal, non-containing pair never scores
\* 1.0.
C9_NeverFullScore ==
    (Scored /\ ScoredA # ScoredB /\ ~Containing) => ~ScoreEq(score, <<1, 1>>)

-----------------------------------------------------------------------------
(* C10 *)

\* C10 as claimed: for every string, normalizing twice gives the same as
\* normalizing once, for the OFAC, EU and OpenSanctions normalizers.
C10_Idempotent == once # NoStr => twice = once

-----------------------------------------------------------------------------
(* C11 *)

\* C11 (amended): for every string s whose normalized form is non-empty, the
\* score of s against itself is 1.0, for the OFAC and EU scorers; when the
\* normalized form of s is empty the score of s against itself is 0.0.
C11_Reflexive ==
    (Scored /\ argA = argB) =>
        /\ ScoredA # <<>> => ScoreEq(score, <<1, 1>>)
        /\ ScoredA = <<>> => ScoreEq(score, <<0, 1>>)

\* a name of several words, with a legal suffix the normalizer strips, has
\* been scored against itself
C11_Witness ==
    /\ Scored
    /\ argA = argB
    /\ Len(argA) = MaxScoreLen
    /\ ScoredA # <<>>
    /\ ScoredA # argA
    /\ ScoreEq(score, <<1, 1>>)

\* C11 as claimed: for every string s, the score of s against itself is 1.0.
C11_ReflexiveAll == (Scored /\ argA = argB) => ScoreEq(score, <<1, 1>>)

-----------------------------------------------------------------------------
(* C12 *)

\* the score the scorer of the client gives to the two names in the other
\* order
ScoreSwapped ==
    IF client = "OFAC" THEN Ofac_calculate_match_score(argB, argA)
    ELSE Eu_calculate_match_score(argB, argA)

\* C12: the score is symmetric: for all names a and b the score of a against
\* b equals the score of b against a, in the equality, containment and
\* Jaccard tiers, for the OFAC and EU scorers.
C12_Symmetric == Scored => score = ScoreSwapped

\* two names with different normalized forms, the first strictly inside the
\* second, have been scored in the containment tier
C12_Witness ==
    /\ Scored
    /\ ScoredA # <<>>
    /\ ScoredA # ScoredB
    /\ IsSubstring(ScoredA, ScoredB)
    /\ ScoreEq(score, <<9, 10>>)
    /\ ScoreEq(ScoreSwapped, <<9, 10>>)

-----------------------------------------------------------------------------
(* C13 *)

\* the two normalized names are non-empty and have no word in common
NoSharedWord ==
    /\ ScoredA # <<>>
    /\ ScoredB # <<>>
    /\ WordSet(ScoredA) \cap WordSet(ScoredB) = {}

\* C13 (amended): for any two names whose normalized forms are non-empty,
\* share no whitespace-delimited word, and of which neither is a substring of
\* the other, the score is 0.0 (OFAC and EU scorers); when one is a substring
\* of the other the score is 0.9 although no word is shared.
C13_DisjointIsZero ==
    (Scored /\ NoSharedWord) =>
        /\ ~Containing => ScoreEq(score, <<0, 1>>)
        /\ Containing => ScoreEq(score, <<9, 10>>)

\* two names of different words, neither inside the other, have been scored
C13_Witness ==
    /\ Scored
    /\ NoSharedWord
    /\ ~Containing
    /\ WordSet(ScoredA) # {}
    /\ WordSet(ScoredB) # {}
    /\ ScoreEq(score, <<0, 1>>)

\* C13 as claimed: two non-empty normalized names sharing no word score 0.0.
C13_DisjointAlwaysZero == (Scored /\ NoSharedWord) => ScoreEq(score, <<0, 1>>)

-----------------------------------------------------------------------------
(* C14 *)

\* a record of the OFAC client (an entity or a match) describes a company or
\* a vessel, is labelled as what it describes, and has a name
CompanyRecord(e) ==
    /\ e.type \in {"Entity", "Vessel"}
    /\ e.truth = e.type
    /\ e.name # <<>>

AllCompanyRecords(seq) == \A i \in 1..Len(seq) : CompanyRecord(seq[i])

\* C14: for the OFAC source, whichever export was loaded (CSV, classic XML or
\* advanced XML) and whatever the cache state, every cached entity, every
\* scored entity and every returned match has type Entity or Vessel and a
\* non-empty name; a row of type Individual never appears in a search result.
C14_OnlyCompanies ==
    client = "OFAC" =>
        /\ AllCompanyRecords(cache.ents)
        /\ AllCompanyRecords(last.out.cache.ents)
        /\ AllCompanyRecords(last.out.scored)
        /\ AllCompanyRecords(last.out.env.matches)

\* an OFAC search for "SS" was answered from the classic XML export, whose
\* list has an Individual named "S" between two companies: the two companies
\* were scored and cached, and nothing matched
C14_Witness ==
    /\ client = "OFAC"
    /\ Returned
    /\ last.out.urls = <<"csv", "xml">>
    /\ last.out.env.searched_name = <<"S", "S">>
    /\ Len(last.out.scored) = 3
    /\ last.out.scored[2].type = "Vessel"
    /\ last.out.cache.ents = last.out.scored
    /\ last.out.env.status = "clear"

-----------------------------------------------------------------------------
(* C15 *)

\* the query as search_company normalizes it, and the score it computes for
\* an entity of the loaded list: from the entity's name
CleanedQuery ==
    IF client = "OFAC" THEN Ofac_clean_company_name(last.out.env.searched_name)
    ELSE Eu_clean_company_name(last.out.env.searched_name)
NameScore(e) ==
    IF client = "OFAC" THEN Ofac_calculate_match_score(CleanedQuery, e.name)
    ELSE Eu_calculate_match_score(CleanedQuery, e.name)

\* the latest call was an OFAC or EU search that returned without error
Succeeded ==
    /\ client \in {"OFAC", "EU"}
    /\ Returned
    /\ ~last.out.escaped
    /\ last.out.env.status \in {"clear", "found_matches"}

\* C15: for the OFAC and EU clients, the matches of a successful search are
\* exactly the entities of the loaded list whose score against the normalized
\* query, computed from the entity's primary name only, is >= threshold, in
\* list order: none below the threshold is returned, none at or above it is
\* missing, and each match carries that score rounded to two decimals.
C15_ExactlyAboveThreshold ==
    Succeeded =>
        LET kept == SelectSeq(last.out.scored,
                              LAMBDA e : ScoreGeq(NameScore(e), last.thr))
            matches == last.out.env.matches
        IN  /\ Len(matches) = Len(kept)
            /\ \A i \in 1..Len(kept) :
                   /\ matches[i].id = kept[i].id
                   /\ matches[i].name = kept[i].name
                   /\ matches[i].match_score = Round2(NameScore(kept[i]))

\* a search for "A.C" at the default threshold over a list of three
\* companies: two were returned, the third ("C S", Jaccard index 1/3) was not
C15_Witness ==
    /\ Succeeded
    /\ last.thr = DefaultThreshold
    /\ last.out.env.searched_name = <<"A", ".", "C">>
    /\ Len(last.out.scored) = 3
    /\ Len(last.out.env.matches) = 2
    /\ \E i \in 1..3 :
           /\ ScoreGt(NameScore(last.out.scored[i]), <<0, 1>>)
           /\ ~ScoreGeq(NameScore(last.out.scored[i]), DefaultThreshold)

-----------------------------------------------------------------------------
(* C16 *)

\* C16 as claimed: the matches of every SearchResult are ordered by match
\* score descending (ties in original list order).
C16_ScoreDescending ==
    Returned =>
        LET matches == last.out.env.matches
        IN  \A i \in 1..Len(matches) - 1 :
                matches[i].match_score >= matches[i + 1].match_score

-----------------------------------------------------------------------------
(* C17 *)

\* C17 as claimed: no two matches of one SearchResult refer to the same list
\* record (sdn_number, eu_reference_number, entity_id).
C17_NoDuplicateRecord ==
    Returned =>
        LET matches == last.out.env.matches
        IN  \A i, j \in 1..Len(matches) : matches[i].id = matches[j].id => i = j

-----------------------------------------------------------------------------
(* C18 *)

\* C18: every risk finding derived from a sanctions match has severity
\* "critical" if the match's match_score is above 0.9 and "high" otherwise; no
\* other severity is assigned (a containment match scored exactly 0.9 yields
\* "high").
C18_SeverityFromScore ==
    \A f \in db.risk_findings :
        /\ f.risk_category = "Sanctions"
        /\ f.severity \in {"critical", "high"}
        /\ f.severity = "critical" <=> f.raw_data.match_score > 90

\* one check has recorded a finding for an exact match (1.0, critical) and
\* one for a containment match (exactly 0.9, high)
C18_Witness ==
    \E f, g \in db.risk_findings :
        /\ f.assessment_id = g.assessment_id
        /\ f.raw_data.match_score = 100 /\ f.severity = "critical"
        /\ g.raw_data.match_score = 90 /\ g.severity = "high"

-----------------------------------------------------------------------------
(* C19 *)

\* the latest call found a cache entry with an empty list, younger than the
\* TTL: a search inside the window that follows a failed refresh
InEmptyWindow ==
    /\ ~last.before.none
    /\ last.before.ents = <<>>
    /\ last.at - last.before.ts < CacheTtl

\* C19: for the OFAC and EU caches, when a search attempts a refresh and
\* every fetch or parse fails, the previously cached list is discarded: the
\* cache entry becomes (now, empty list) and the search returns "clear"; and
\* every search of a name inside the TTL window (6 hours) of an entry with
\* an empty list returns "clear" without a network request, leaving the
\* entry as it is.
C19_FailedRefreshEmptiesCache ==
    (client \in {"OFAC", "EU"} /\ Returned) =>
        /\ AllFetchesFailed =>
               /\ last.out.cache = CacheOf(last.at, <<>>)
               /\ cache = CacheOf(last.at, <<>>)
               /\ last.out.scored = <<>>
               /\ last.out.env.status = "clear"
        /\ (InEmptyWindow /\ last.out.env.searched_name # NoneName) =>
               /\ last.out.urls = <<>>
               /\ last.out.env.status = "clear"
               /\ last.out.cache = last.before

\* a search found a list of entities older than the TTL, every export failed,
\* and the list was replaced by the empty list stamped with the time of the
\* search
C19_Witness ==
    /\ client \in {"OFAC", "EU"}
    /\ Returned
    /\ FoundStale
    /\ last.before.ents # <<>>
    /\ AllFetchesFailed
    /\ Len(last.out.urls) >= 3
    /\ cache = CacheOf(last.at, <<>>)
    /\ last.out.env.status = "clear"

-----------------------------------------------------------------------------
(* C20 *)

\* the threads that found the cache missing or expired and are inside the
\* refresh: requesting an export, parsing it, or about to store the result
Refreshing == {t \in Threads : threads[t].pc \in {"get", "parse", "store"}}

\* C20 as claimed: when concurrent search_company calls on one shared OFAC or
\* EU client all find the cache missing or expired, a single refresh is in
\* flight: the list is downloaded by one of them, not by each.
C20_SingleFlight == Cardinality(Refreshing) <= 1

-----------------------------------------------------------------------------
(* C21 *)

\* a response to an OFAC export gives at least one kept entity: it arrived,
\* and one of its rows is a named Entity or Vessel
OfacYields(resp) ==
    /\ resp.kind = "ok"
    /\ \E i \in 1..Len(resp.rows) :
           resp.rows[i].type \in {"Entity", "Vessel"} /\ resp.rows[i].name # <<>>

\* seq is the first n elements of full, for some n
IsPrefix(seq, full) ==
    /\ Len(seq) <= Len(full)
    /\ \A i \in 1..Len(seq) : seq[i] = full[i]

\* one step of an OFAC client, seen from its caller
C21_Step ==
    client = "OFAC" =>
        \* while a refresh waits for an export, the exports requested so far
        \* are CSV, classic XML, advanced XML in this order, every export
        \* before the awaited one was answered and gave no entity, and no
        \* other export has been requested
        /\ inflight'.active =>
               /\ inflight'.urls # <<>>
               /\ IsPrefix(inflight'.urls, OfacUrls)
               /\ \A i \in 1..Len(OfacUrls) :
                      IF i < Len(inflight'.urls)
                      THEN /\ inflight'.net[OfacUrls[i]] # Pending
                           /\ ~OfacYields(inflight'.net[OfacUrls[i]])
                      ELSE inflight'.net[OfacUrls[i]] = Pending
        \* when the awaited export is answered and the call returns, no
        \* further export was requested; unless all three had been tried the
        \* cache holds a non-empty list stamped with the current time, which
        \* is the list the call scored
        /\ (inflight.active /\ ~inflight'.active) =>
               /\ last'.out.urls = inflight.urls
               /\ Len(inflight.urls) < Len(OfacUrls) =>
                      /\ cache'.ents # <<>>
                      /\ cache'.ts = now
                      /\ last'.out.env.status # "error" => last'.out.scored = cache'.ents
               /\ cache'.ents = <<>> => cache' = CacheOf(now, <<>>)

\* C21: an OFAC refresh requests its exports in the fixed order CSV, classic
\* XML, advanced XML; a later export is requested only if every earlier one
\* failed to fetch, failed to parse or yielded no kept entity; the first
\* export yielding at least one entity is cached with the current time and
\* returned, and no further export is requested.
C21_ExportOrder == [][C21_Step]_vars

\* the CSV export arrived without a kept row, the classic XML export gave
\* entities: they were cached and scored, and the advanced XML export was
\* not requested
C21_Witness ==
    /\ client = "OFAC"
    /\ Returned
    /\ last.out.urls = <<"csv", "xml">>
    /\ last.kinds = {"ok"}
    /\ last.out.scored # <<>>
    /\ cache = CacheOf(last.at, last.out.scored)

-----------------------------------------------------------------------------
(* C22 *)

\* position of a URL in the EU client's list of URLs
EuPos(u) == CHOOSE i \in 1..Len(EuUrls) : EuUrls[i] = u

\* the URL was answered with HTTP 200 and a non-empty body
Got200Body(resp) == resp.kind \in {"ok", "unparsable"}

\* the export of a format (bare URL, token URL) could not be fetched: both
\* URLs were answered, neither with a 200 carrying a body
NotFetched(net, bare, token) ==
    /\ net[bare] # Pending /\ ~Got200Body(net[bare])
    /\ net[token] # Pending /\ ~Got200Body(net[token])

\* the export of a format was fetched and could not be parsed
NotParsed(net, bare, token) ==
    \/ net[bare].kind = "unparsable"
    \/ ~Got200Body(net[bare]) /\ net[token].kind = "unparsable"

\* the URLs an EU refresh has requested (urls) and the answers it has got
\* (net) while it awaits the last of them
EuRequestsInOrder(urls, net) ==
    /\ urls # <<>>
    /\ urls[1] = "xml"
    /\ \A i \in 1..Len(urls) - 1 :
           /\ EuPos(urls[i]) < EuPos(urls[i + 1])
           /\ net[urls[i]] # Pending
    /\ \A u \in AllUrls : (\A i \in 1..Len(urls) - 1 : urls[i] # u) => net[u] = Pending
    /\ \A i \in 1..Len(urls) :
           /\ urls[i] = "xml_token" =>
                  net["xml"] # Pending /\ ~Got200Body(net["xml"])
           /\ urls[i] = "csv_token" =>
                  net["csv"] # Pending /\ ~Got200Body(net["csv"])
           /\ urls[i] = "csv" =>
                  \/ NotFetched(net, "xml", "xml_token")
                  \/ NotParsed(net, "xml", "xml_token")

C22_Step ==
    client = "EU" =>
        /\ inflight'.active => EuRequestsInOrder(inflight'.urls, inflight'.net)
        /\ (inflight.active /\ ~inflight'.active) => last'.out.urls = inflight.urls

\* C22 (amended): an EU refresh requests URLs in the order XML primary, XML
\* token, CSV primary, CSV token; a token URL is requested only if the bare
\* URL of the same format did not return HTTP 200 with a non-empty body (a
\* requests exception, another status, or a 200 with an empty body), and the
\* CSV export is requested only if the XML export could not be fetched or
\* could not be parsed; the call requests nothing after the answer it returns
\* on.
C22_UrlOrder == [][C22_Step]_vars

\* the XML export arrived and could not be parsed, the bare CSV URL failed,
\* and the CSV token URL gave the list that was scored: the XML token URL was
\* never requested
C22_Witness ==
    /\ client = "EU"
    /\ Returned
    /\ last.out.urls = <<"xml", "csv", "csv_token">>
    /\ "unparsable" \in last.kinds
    /\ last.out.scored # <<>>
    /\ cache = CacheOf(last.at, last.out.scored)

\* C22 as claimed: a token URL is requested only if the bare URL of the same
\* format did not return HTTP 200.
C22_TokenOnlyAfterNon200 ==
    (client = "EU" /\ inflight.active) =>
        \A i \in 1..Len(inflight.urls) :
            /\ inflight.urls[i] = "xml_token" =>
                   inflight.net["xml"].kind \in {"neterr", "non200"}
            /\ inflight.urls[i] = "csv_token" =>
                   inflight.net["csv"].kind \in {"neterr", "non200"}

-----------------------------------------------------------------------------
(* C23 *)

\* the names of the nameAlias entries of the node, and those flagged strong
WholeNames == { node[i].whole : i \in 1..Len(node) } \ { <<>> }
StrongNames ==
    { node[i].whole : i \in { j \in 1..Len(node) : node[j].strong = "true" } } \ { <<>> }
Parsed == subject # NoSubject /\ ~subject.none

\* C23 as claimed: for a sanctionEntity node with several nameAlias entries,
\* the entity's primary name is an alias flagged strong="true" when one
\* exists, and every alias that is not the primary name is in the entity's
\* aliases list: no alias name is lost.
C23_StrongNameAndNoneLost ==
    Parsed =>
        /\ StrongNames # {} => subject.name \in StrongNames
        /\ \A w \in WholeNames \ {subject.name} :
               \E i \in 1..Len(subject.aliases) : subject.aliases[i] = w

-----------------------------------------------------------------------------
(* C24 *)

NoPerson(seq) == \A i \in 1..Len(seq) : seq[i].truth # "Individual"

\* C24 as claimed: no record describing a person ever enters the EU entity
\* universe or an EU search result, whether the list was loaded from the XML
\* export or from the CSV fallback (including rows whose subject-type column
\* is absent or empty).
C24_NoPersonInEu ==
    client = "EU" =>
        /\ NoPerson(cache.ents)
        /\ NoPerson(last.out.scored)
        /\ NoPerson(last.out.env.matches)

-----------------------------------------------------------------------------
(* C25 *)

\* the last word of the normalized name, <<>> when it has no word
LastWord ==
    LET words == Split(once)
    IN  IF words = <<>> THEN <<>> ELSE words[Len(words)]

\* the word is a legal suffix of the client (OFAC's set holds each suffix
\* with a blank in front, in upper case)
IsSuffixWord(w) ==
    IF client = "OFAC" THEN <<" ">> \o w \in OfacSuffixes
    ELSE IF client = "EU" THEN w \in EuSuffixes
    ELSE w \in OsSuffixes

\* C25 as claimed: for every input, the last word of the normalized name is
\* not a member of the source's legal-suffix set, whatever the number and
\* order of trailing suffix words (OFAC, EU and OpenSanctions normalizers).
C25_NoTrailingSuffix == (once # NoStr /\ LastWord # <<>>) => ~IsSuffixWord(LastWord)


\* ---------------------------------------------------------------------------
\* C26: summary pagination covers each match once: a click on "Display More"
\* summarizes the next batch, so the run it starts ends without an exception,
\* and advances ofac_page by one, until the button disappears.
\* ---------------------------------------------------------------------------
C26_Step ==
    (run'.event = "more_ofac" /\ run' # run)
        => /\ run'.exc = ""
           /\ session'.ofac_page = Step2Prelude(session).ofac_page + 1

C26_DisplayMoreAdvances == [][C26_Step]_vars
\* ---------------------------------------------------------------------------
\* C27: on step 2 a run in which no button is pressed is quiescent: it does not
\* end in st.rerun(), writes nothing to the database and leaves ofac_result,
\* os_result and their summaries as they were.
\* ---------------------------------------------------------------------------
C27_Step ==
    (session.step = 2 /\ run'.event = "none")
        => /\ ~run'.rerun
           /\ db' = db
           /\ session'.ofac_result = session.ofac_result
           /\ session'.os_result = session.os_result
           /\ session'.ofac_summary = session.ofac_summary
           /\ session'.os_summary = session.os_summary

C27_IdleRenderQuiescent == [][C27_Step]_vars
\* ---------------------------------------------------------------------------
\* C28: a click on a sanctions check button persists exactly one API response
\* for that source, and the result it leaves in session state is the envelope
\* search_company returned: a search that ended found_matches or clear is not
\* replaced by an error result, nor followed by a second saved response.
\* ---------------------------------------------------------------------------
C28_Step ==
    (run'.event = "check_ofac" /\ db' # db)
        => /\ Len(db'.api_responses) = Len(db.api_responses) + 1
           /\ session'.ofac_result.status = "error"
                  => session'.ofac_result.origin \notin {"found_matches", "clear"}

C28_OneResponsePerClick == [][C28_Step]_vars
\* ---------------------------------------------------------------------------
\* C29: after "Start New Assessment" no sanctions data of the previous
\* assessment remains in session state: ofac_result, os_result, the summaries
\* and the page counters are as in a fresh session.
\* ---------------------------------------------------------------------------
C29_ResetClearsSanctions ==
    run.event = "new_assessment" =>
        /\ session.ofac_result = NoSession.ofac_result
        /\ session.os_result = NoSession.os_result
        /\ session.ofac_summary = NoSession.ofac_summary
        /\ session.os_summary = NoSession.os_summary
        /\ session.combined_summary = NoSession.combined_summary
        /\ session.ofac_page = NoSession.ofac_page
        /\ session.os_page = NoSession.os_page
\* ---------------------------------------------------------------------------
\* C30: the wizard step is always in 1..5; it changes only by +1 (from 1 to 2
\* in a run that created an assessment for a non-empty company name, from 2,
\* 3 and 4 on a Continue button) or by the reset to 1; whenever the step is 2
\* or more an assessment id is set and the company name is non-empty; right
\* after a reset the id is unset, the cost 0 and the name empty.
\* ---------------------------------------------------------------------------
C30_Inv ==
    /\ session.step \in 1..5
    /\ session.step >= 2 => (session.assessment_id # 0 /\ session.company_name # <<>>)
    /\ run.event = "new_assessment" =>
           /\ session.step = 1
           /\ session.assessment_id = NoSession.assessment_id
           /\ session.total_cost = NoSession.total_cost
           /\ session.company_name = NoSession.company_name

C30_Step ==
    session'.step # session.step =>
        \/ /\ session'.step = session.step + 1
           /\ session.step = 1 =>
                  /\ run'.event = "submit"
                  /\ db'.assessments = db.assessments + 1
                  /\ session'.assessment_id = db'.assessments
                  /\ session'.company_name # <<>>
           /\ session.step > 1 => run'.event = "continue"
        \/ /\ session'.step = 1
           /\ run'.event = "new_assessment"

C30_WizardSteps == []C30_Inv /\ [][C30_Step]_vars

\* the second assessment, started after a reset, has reached the final report
C30_Witness ==
    /\ session.step = 5
    /\ session.assessment_id = 2
====
